---- MODULE Spec2Model ----
(***************************************************************************)
(* AutoERGen: two Streamlit scripts that turn a free-text description of a *)
(* database into an ER diagram.                                            *)
(*   app.py       login / signup / logout, a cached Gemini call returning  *)
(*                Graphviz DOT, a log row per generation, an editable DOT  *)
(*                source kept in st.session_state.last_dot.                *)
(*   autoergen.py a Gemini call returning JSON, parsed into er_data, from  *)
(*                which a Digraph and a naive SQL schema are derived.      *)
(* A Streamlit script runs top to bottom once per user interaction; every  *)
(* action below is one such run, with the widget event that triggered it.  *)
(* Text is a sequence of characters, each a one-character string.          *)
(***************************************************************************)
EXTENDS Integers, Sequences, FiniteSets, TLC

VARIABLES
    script,      \* which of the two programs this server runs
    logged_in,   \* st.session_state.logged_in          (app.py)
    user_id,     \* st.session_state.user_id            (app.py)
    last_dot,    \* st.session_state.last_dot           (app.py)
    users,       \* rows of table users, in insertion order
    projects,    \* rows of table projects
    cache,       \* st.cache_data entries of call_gemini_for_dot
    served,      \* history: the live successful service answer per prompt
    stale,       \* history: last_dot was written before the latest login
    run,         \* what the last run of app.py did and showed
    ae,          \* what the last run of autoergen.py did and showed
    norm         \* one application of the DOT normalisation to a pair of texts

vars == <<script, logged_in, user_id, last_dot, users, projects, cache,
          served, stale, run, ae, norm>>

\* an optional text: Python's None, or a str
NoText     == [some |-> FALSE, v |-> <<>>]
SomeText(t) == [some |-> TRUE, v |-> t]

----------------------------------------------------------------------------
(* Python str operations on texts                                          *)

\* str.strip() removes these from both ends (the whitespace of the inputs used)
WS == {" ", "\n"}

RECURSIVE LStrip(_)
LStrip(s) == IF s # <<>> /\ Head(s) \in WS THEN LStrip(Tail(s)) ELSE s

RECURSIVE RStrip(_)
RStrip(s) ==
    IF s # <<>> /\ s[Len(s)] \in WS THEN RStrip(SubSeq(s, 1, Len(s) - 1)) ELSE s

StripNothing(s) == s

Strip(s) == RStrip(LStrip(s))

StartsWithAt(s, i, p) ==
    /\ i + Len(p) - 1 <= Len(s)
    /\ SubSeq(s, i, i + Len(p) - 1) = p

StartsWith(s, p) == StartsWithAt(s, 1, p)

\* index of the first occurrence of p in s, 0 when there is none (str.find + 1)
Find(s, p) ==
    LET hits == {j \in 1..(Len(s) - Len(p) + 1) : StartsWithAt(s, j, p)}
    IN  IF hits = {} THEN 0 ELSE CHOOSE j \in hits : \A k \in hits : j <= k

Contains(s, p) == Find(s, p) # 0

\* s.replace(p, "")
RECURSIVE Remove(_, _)
Remove(s, p) ==
    LET j == Find(s, p)
    IN  IF j = 0 THEN s
        ELSE SubSeq(s, 1, j - 1) \o Remove(SubSeq(s, j + Len(p), Len(s)), p)

\* s.split(p)[1], for s that contains p
SplitSecond(s, p) ==
    LET j    == Find(s, p)
        rest == SubSeq(s, j + Len(p), Len(s))
        k    == Find(rest, p)
    IN  IF k = 0 THEN rest ELSE SubSeq(rest, 1, k - 1)

\* the backtick character (a TLA+ string literal cannot hold it)
BT == "BACKTICK"

Fence == <<BT, BT, BT>>

W_dot  == <<"d", "o", "t">>
W_json == <<"j", "s", "o", "n">>

----------------------------------------------------------------------------
(* Python values as json.loads builds them.  One record shape for every    *)
(* value: t is the type, s the text of a str or a number, items the        *)
(* elements of a list or the values of a dict, keys the keys of a dict.    *)

JNull      == [t |-> "null", s |-> <<>>, items |-> <<>>, keys |-> <<>>]
JBool(b)   == [t |-> IF b THEN "true" ELSE "false", s |-> <<>>, items |-> <<>>, keys |-> <<>>]
JNum(x)    == [t |-> "num",  s |-> x,    items |-> <<>>, keys |-> <<>>]
JStr(x)    == [t |-> "str",  s |-> x,    items |-> <<>>, keys |-> <<>>]
JList(xs)  == [t |-> "list", s |-> <<>>, items |-> xs,   keys |-> <<>>]
JObj(ks, vs) == [t |-> "dict", s |-> <<>>, items |-> vs, keys |-> ks]

HasKey(d, k) == \E n \in 1..Len(d.keys) : d.keys[n] = k

\* d[k] for a dict d that has k
Lookup(d, k) == d.items[CHOOSE n \in 1..Len(d.keys) : d.keys[n] = k]

\* d[k] = v: a repeated key keeps its place and takes the last value
Put(d, k, v) ==
    IF HasKey(d, k)
    THEN JObj(d.keys, [n \in 1..Len(d.keys) |-> IF d.keys[n] = k THEN v ELSE d.items[n]])
    ELSE JObj(Append(d.keys, k), Append(d.items, v))

\* bool(v)
Truthy(v) ==
    CASE v.t = "null"  -> FALSE
      [] v.t = "false" -> FALSE
      [] v.t = "true"  -> TRUE
      [] v.t = "num"   -> \E n \in 1..Len(v.s) : v.s[n] # "0"
      [] v.t = "str"   -> v.s # <<>>
      [] v.t = "list"  -> v.items # <<>>
      [] v.t = "dict"  -> v.keys # <<>>

----------------------------------------------------------------------------
(* json.loads on texts without escapes, signs or fractions                 *)

QUOTE  == "\""
JsonWS == {" ", "\n"}
Digits == {"0", "1", "2", "3", "4", "5", "6", "7", "8", "9"}

\* the character at i, "" past the end
At(s, i) == IF i \in 1..Len(s) THEN s[i] ELSE ""

RECURSIVE SkipWS(_, _)
SkipWS(s, i) == IF At(s, i) \in JsonWS THEN SkipWS(s, i + 1) ELSE i

RECURSIVE SkipDigits(_, _)
SkipDigits(s, i) == IF At(s, i) \in Digits THEN SkipDigits(s, i + 1) ELSE i

ParseFail  == [ok |-> FALSE, v |-> JNull, i |-> 0]
ParseOk(v, i) == [ok |-> TRUE, v |-> v, i |-> i]

\* s[i] is the opening quote; a raw line break inside a string is an error
ParseString(s, i) ==
    LET n == Find(SubSeq(s, i + 1, Len(s)), <<QUOTE>>)
        body == SubSeq(s, i + 1, i + n - 1)
    IN  IF n = 0 \/ Contains(body, <<"\n">>) THEN ParseFail
        ELSE ParseOk(JStr(body), i + n + 1)

\* (0|[1-9]\d*)([eE]\d+)?
ParseNumber(s, i) ==
    LET j == IF s[i] = "0" THEN i + 1 ELSE SkipDigits(s, i)
        k == IF At(s, j) \in {"e", "E"} /\ At(s, j + 1) \in Digits
             THEN SkipDigits(s, j + 1) ELSE j
    IN  ParseOk(JNum(SubSeq(s, i, k - 1)), k)

RECURSIVE ParseValue(_, _)
RECURSIVE ArrayItems(_, _, _)
RECURSIVE ArrayRest(_, _, _)
RECURSIVE ObjectItems(_, _, _)
RECURSIVE ObjectValue(_, _, _)
RECURSIVE ObjectRest(_, _, _, _)

ParseValue(s, i) ==
    LET c == At(s, i)
    IN  CASE c = QUOTE -> ParseString(s, i)
          [] c = "{" ->
                LET j == SkipWS(s, i + 1)
                IN  IF At(s, j) = "}" THEN ParseOk(JObj(<<>>, <<>>), j + 1)
                    ELSE IF At(s, j) # QUOTE THEN ParseFail
                    ELSE ObjectItems(s, j, JObj(<<>>, <<>>))
          [] c = "[" ->
                LET j == SkipWS(s, i + 1)
                IN  IF At(s, j) = "]" THEN ParseOk(JList(<<>>), j + 1)
                    ELSE ArrayItems(s, j, <<>>)
          [] c \in Digits -> ParseNumber(s, i)
          [] StartsWithAt(s, i, <<"n", "u", "l", "l">>) -> ParseOk(JNull, i + 4)
          [] StartsWithAt(s, i, <<"t", "r", "u", "e">>) -> ParseOk(JBool(TRUE), i + 4)
          [] StartsWithAt(s, i, <<"f", "a", "l", "s", "e">>) -> ParseOk(JBool(FALSE), i + 5)
          [] OTHER -> ParseFail

\* an item of a list starts at i; acc holds the items before it
ArrayItems(s, i, acc) == ArrayRest(s, acc, ParseValue(s, i))

\* r is the parse of the item: "]" ends the list, "," continues it
ArrayRest(s, acc, r) ==
    LET j == SkipWS(s, r.i)
    IN  IF ~r.ok THEN ParseFail
        ELSE IF At(s, j) = "]" THEN ParseOk(JList(Append(acc, r.v)), j + 1)
        ELSE IF At(s, j) = "," THEN ArrayItems(s, SkipWS(s, j + 1), Append(acc, r.v))
        ELSE ParseFail

\* s[i] is the quote opening a key; d holds the pairs before it
ObjectItems(s, i, d) == ObjectValue(s, d, ParseString(s, i))

\* k is the parse of the key: ":" and the value follow
ObjectValue(s, d, k) ==
    LET j == SkipWS(s, k.i)
    IN  IF ~k.ok \/ At(s, j) # ":" THEN ParseFail
        ELSE ObjectRest(s, d, k.v.s, ParseValue(s, SkipWS(s, j + 1)))

\* r is the parse of the value of key: "}" ends the object, "," and a quote
\* continue it
ObjectRest(s, d, key, r) ==
    LET e  == SkipWS(s, r.i)
        nx == SkipWS(s, e + 1)
    IN  IF ~r.ok THEN ParseFail
        ELSE IF At(s, e) = "}" THEN ParseOk(Put(d, key, r.v), e + 1)
        ELSE IF At(s, e) = "," /\ At(s, nx) = QUOTE
             THEN ObjectItems(s, nx, Put(d, key, r.v))
        ELSE ParseFail

\* no text may follow the value
WholeText(s, r) == IF r.ok /\ SkipWS(s, r.i) = Len(s) + 1 THEN r ELSE ParseFail

\* json.loads(s): ok is FALSE where it raises JSONDecodeError
Loads(s) == WholeText(s, ParseValue(s, SkipWS(s, 1)))


----------------------------------------------------------------------------
(* autoergen.py                                                            *)

W_entities      == <<"e", "n", "t", "i", "t", "i", "e", "s">>
W_relationships == <<"r", "e", "l", "a", "t", "i", "o", "n", "s", "h", "i", "p", "s">>
W_from          == <<"f", "r", "o", "m">>
W_to            == <<"t", "o">>
W_relation      == <<"r", "e", "l", "a", "t", "i", "o", "n">>

\* the value generate_er_spec returns from its except branch
EmptySpec == JObj(<<W_entities, W_relationships>>, <<JList(<<>>), JList(<<>>)>>)

\* `not user_input.strip()`
BlankNoStrip(s) == StripNothing(s) = <<>>

Blank(s) == Strip(s) = <<>>

\* response.text.strip().replace("```json", "").replace("```", "")
CleanJson(text) == Remove(Remove(Strip(text), Fence \o W_json), Fence)

\* generate_er_spec with the parse error escaping instead of being caught
GenerateErSpecNoCatch(resp) ==
    IF resp.kind # "text"
    THEN [data |-> EmptySpec, failed |-> TRUE, raised |-> FALSE]
    ELSE LET r == Loads(CleanJson(resp.text))
         IN  [data |-> r.v, failed |-> FALSE, raised |-> ~r.ok]

\* generate_er_spec: resp is what client.models.generate_content produced
\* (kind "text": response.text is a str; "none": it is None; "raise": the call
\* raised).  failed: the except branch ran and st.error was shown; raised: an
\* exception left the function.
GenerateErSpec(resp) ==
    IF resp.kind # "text"
    THEN [data |-> EmptySpec, failed |-> TRUE, raised |-> FALSE]
    ELSE LET r == Loads(CleanJson(resp.text))
         IN  IF r.ok THEN [data |-> r.v, failed |-> FALSE, raised |-> FALSE]
             ELSE [data |-> EmptySpec, failed |-> TRUE, raised |-> FALSE]

\* d.get(k, default) on a dict
Get(d, k, default) == IF HasKey(d, k) THEN Lookup(d, k) ELSE default

\* `for x in v`: ok is FALSE where v is not iterable (TypeError)
Iter(v) ==
    CASE v.t = "list" -> [ok |-> TRUE, items |-> v.items]
      [] v.t = "dict" -> [ok |-> TRUE, items |-> [n \in 1..Len(v.keys) |-> JStr(v.keys[n])]]
      [] v.t = "str"  -> [ok |-> TRUE, items |-> [n \in 1..Len(v.s) |-> JStr(<<v.s[n]>>)]]
      [] OTHER        -> [ok |-> FALSE, items |-> <<>>]

\* x[k] with a str k: "none" where it evaluates, else the exception raised
SubscriptExc(x, k) ==
    IF x.t # "dict" THEN "TypeError" ELSE IF HasKey(x, k) THEN "none" ELSE "KeyError"

\* the first exception of a sequence of outcomes, "none" when there is none
FirstExc(excs) ==
    LET bad == {n \in 1..Len(excs) : excs[n] # "none"}
    IN  IF bad = {} THEN "none"
        ELSE excs[CHOOSE n \in bad : \A m \in bad : n <= m]

\* a statement of the Digraph body
AttrStmt(k, v)        == [kind |-> "attr", tail |-> k, head |-> v,    label |-> <<>>]
NodeStmt(name, label) == [kind |-> "node", tail |-> name, head |-> <<>>, label |-> label]
EdgeStmt(a, b, label) == [kind |-> "edge", tail |-> a, head |-> b,    label |-> label]

\* dot.node(entity, entity, ...): graphviz quotes the name, which must be a str
NodeExc(e) == IF e.t = "str" THEN "none" ELSE "TypeError"

\* dot.edge(rel["from"], rel["to"], label=rel.get("relation", ""))
EdgeExc(rel) ==
    IF SubscriptExc(rel, W_from) # "none" THEN SubscriptExc(rel, W_from)
    ELSE IF SubscriptExc(rel, W_to) # "none" THEN SubscriptExc(rel, W_to)
    ELSE IF Lookup(rel, W_from).t # "str" \/ Lookup(rel, W_to).t # "str" THEN "TypeError"
    ELSE IF Get(rel, W_relation, JStr(<<>>)).t \notin {"str", "null"} THEN "TypeError"
    ELSE "none"

\* the edge of a relationship, with the endpoints swapped
EdgeOfSwapped(rel) ==
    EdgeStmt(Lookup(rel, W_to).s, Lookup(rel, W_from).s, Get(rel, W_relation, JStr(<<>>)).s)

\* a label of None is left out, which draws as the empty label
EdgeOf(rel) ==
    EdgeStmt(Lookup(rel, W_from).s, Lookup(rel, W_to).s, Get(rel, W_relation, JStr(<<>>)).s)

\* create_er_diagram(er_data), er_data a dict: the exception raised ("none" if
\* none) and the body of the Digraph returned
CreateErDiagram(er_data) ==
    LET ents == Iter(Get(er_data, W_entities, JList(<<>>)))
        rels == Iter(Get(er_data, W_relationships, JList(<<>>)))
        eexc == IF ~ents.ok THEN "TypeError"
                ELSE FirstExc([n \in 1..Len(ents.items) |-> NodeExc(ents.items[n])])
        rexc == IF ~rels.ok THEN "TypeError"
                ELSE FirstExc([n \in 1..Len(rels.items) |-> EdgeExc(rels.items[n])])
    IN  IF eexc # "none" THEN [exc |-> eexc, body |-> <<>>]
        ELSE IF rexc # "none" THEN [exc |-> rexc, body |-> <<>>]
        ELSE [exc  |-> "none",
              body |-> <<AttrStmt(<<"rankdir">>, <<"LR">>)>>
                       \o [n \in 1..Len(ents.items) |->
                              NodeStmt(ents.items[n].s, ents.items[n].s)]
                       \o [n \in 1..Len(rels.items) |-> EdgeOf(rels.items[n])]]

\* str.lower() on the letters the names use
LowerChar(c) == CASE c = "A" -> "a" [] c = "B" -> "b" [] c = "C" -> "c" [] OTHER -> c

Lower(w) == [n \in 1..Len(w) |-> LowerChar(w[n])]

\* f"{v}" of a scalar
Format(v) ==
    CASE v.t = "str"   -> v.s
      [] v.t = "num"   -> v.s
      [] v.t = "null"  -> <<"N", "o", "n", "e">>
      [] v.t = "true"  -> <<"T", "r", "u", "e">>
      [] v.t = "false" -> <<"F", "a", "l", "s", "e">>
      [] OTHER         -> <<"<repr>">>

\* the text fragments of the two statement templates
SqlCreate(entity) ==
    <<"CREATE TABLE ">> \o Format(entity)
    \o <<" (\n    id INT PRIMARY KEY,\n    name VARCHAR(100)\n);">>

SqlAlter(rel) ==
    <<"-- ">> \o Format(Lookup(rel, W_from)) \o <<" ">> \o Format(Lookup(rel, W_relation))
    \o <<" ">> \o Format(Lookup(rel, W_to)) \o <<"\n">>
    \o <<"ALTER TABLE ">> \o Format(Lookup(rel, W_from)) \o <<" ADD COLUMN ">>
    \o Lower(Lookup(rel, W_to).s) \o <<"_id INT REFERENCES ">>
    \o Format(Lookup(rel, W_to)) \o <<"(id);">>

\* evaluating the two f-strings of a relationship
AlterExc(rel) ==
    IF SubscriptExc(rel, W_from) # "none" THEN SubscriptExc(rel, W_from)
    ELSE IF SubscriptExc(rel, W_relation) # "none" THEN SubscriptExc(rel, W_relation)
    ELSE IF SubscriptExc(rel, W_to) # "none" THEN SubscriptExc(rel, W_to)
    ELSE IF Lookup(rel, W_to).t # "str" THEN "AttributeError"
    ELSE "none"

\* "\n\n".join(stmts)
RECURSIVE Join(_)
Join(stmts) ==
    IF stmts = <<>> THEN <<>>
    ELSE IF Len(stmts) = 1 THEN stmts[1]
    ELSE stmts[1] \o <<"\n\n">> \o Join(Tail(stmts))

\* generate_sql_schema(er_data), er_data a dict: the exception raised, the list
\* sql_statements and the text returned
GenerateSqlSchema(er_data) ==
    LET ents == Iter(Get(er_data, W_entities, JList(<<>>)))
        rels == Iter(Get(er_data, W_relationships, JList(<<>>)))
        rexc == IF ~rels.ok THEN "TypeError"
                ELSE FirstExc([n \in 1..Len(rels.items) |-> AlterExc(rels.items[n])])
        stmts == [n \in 1..Len(ents.items) |-> SqlCreate(ents.items[n])]
                 \o [n \in 1..Len(rels.items) |-> SqlAlter(rels.items[n])]
    IN  IF ~ents.ok THEN [exc |-> "TypeError", stmts |-> <<>>, text |-> <<>>]
        ELSE IF rexc # "none" THEN [exc |-> rexc, stmts |-> <<>>, text |-> <<>>]
        ELSE [exc |-> "none", stmts |-> stmts, text |-> Join(stmts)]


\* what one run of autoergen.py did: the description typed, whether
\* generate_er_spec was called and with what answer, er_data, the exception
\* that ended the run ("none" if none), the messages shown, and the two
\* artefacts displayed (shown_diagram / shown_sql say whether they were)
AeRun(input, called, resp, data, exc, msgs, diagram, shown_diagram, stmts, sql, shown_sql) ==
    [input |-> input, called |-> called, resp |-> resp, data |-> data, exc |-> exc,
     msgs |-> msgs, diagram |-> diagram, shown_diagram |-> shown_diagram,
     stmts |-> stmts, sql |-> sql, shown_sql |-> shown_sql]

NoResp == [kind |-> "none", text |-> <<>>]

AeIdle == AeRun(<<>>, FALSE, NoResp, JNull, "none", <<>>, <<>>, FALSE, <<>>, <<>>, FALSE)

\* before the click: the description is in the text area
AeTyped(user_input) ==
    [phase |-> "typed", out |-> AeRun(user_input, FALSE, NoResp, JNull, "none", <<>>,
                                      <<>>, FALSE, <<>>, <<>>, FALSE)]

AeDone(out) == [phase |-> "done", out |-> out]

\* the body of `if st.button("Generate Visualization")`
AeHandler(user_input, resp) ==
    IF Blank(user_input)
    THEN AeRun(user_input, FALSE, NoResp, JNull, "none",
               <<"warning: Please enter a description.">>, <<>>, FALSE, <<>>, <<>>, FALSE)
    ELSE
      LET g    == GenerateErSpec(resp)
          sub  == SubscriptExc(g.data, W_entities)
          d    == CreateErDiagram(g.data)
          q    == GenerateSqlSchema(g.data)
          errs == IF g.failed THEN <<"error: Failed to process with Gemini">> ELSE <<>>
      IN  IF g.raised
          THEN AeRun(user_input, TRUE, resp, JNull, "JSONDecodeError", <<>>,
                     <<>>, FALSE, <<>>, <<>>, FALSE)
          ELSE IF sub # "none"
          THEN AeRun(user_input, TRUE, resp, g.data, sub, errs,
                     <<>>, FALSE, <<>>, <<>>, FALSE)
          ELSE IF ~Truthy(Lookup(g.data, W_entities))
          THEN AeRun(user_input, TRUE, resp, g.data, "none",
                     errs \o <<"error: Could not extract data. Try more descriptive text.">>,
                     <<>>, FALSE, <<>>, <<>>, FALSE)
          ELSE IF d.exc # "none"
          THEN AeRun(user_input, TRUE, resp, g.data, d.exc, errs,
                     <<>>, FALSE, <<>>, <<>>, FALSE)
          ELSE IF q.exc # "none"
          THEN AeRun(user_input, TRUE, resp, g.data, q.exc, errs,
                     d.body, TRUE, <<>>, <<>>, FALSE)
          ELSE AeRun(user_input, TRUE, resp, g.data, "none", errs,
                     d.body, TRUE, q.stmts, q.text, TRUE)


----------------------------------------------------------------------------
(* app.py                                                                  *)

\* st.session_state.user_id = None (the ids of table users start at 1)
NoUser == 0

\* ttl of st.cache_data, in seconds
TTL == 3600

\* hashlib.sha256(password.encode()).hexdigest(): no two passwords of the
\* model share a digest
HashPassword(password) == <<"sha256", password>>

\* the outcome of the database during one operation: "ok", "noconn" (connect
\* raises, get_connection returns None) or "queryfail" (cur.execute raises)
DbOutcomes == {"ok", "noconn", "queryfail"}

RowsByEmail(rows, email) == {n \in 1..Len(rows) : rows[n].email = email}

\* authenticate_user: the id returned (NoUser for None), whether an exception
\* left the function, and whether its connection was left open.  conn.close()
\* follows the with block, so a raising query skips it.
AuthenticateUser(rows, email, password, db) ==
    IF db = "noconn" THEN [uid |-> NoUser, raised |-> FALSE, left_open |-> FALSE]
    ELSE IF db = "queryfail" THEN [uid |-> NoUser, raised |-> TRUE, left_open |-> TRUE]
    ELSE LET hit == RowsByEmail(rows, email)
         IN  IF hit # {} /\ rows[CHOOSE n \in hit : TRUE].password_hash = HashPassword(password)
             THEN [uid |-> rows[CHOOSE n \in hit : TRUE].id, raised |-> FALSE, left_open |-> FALSE]
             ELSE [uid |-> NoUser, raised |-> FALSE, left_open |-> FALSE]

\* create_user: the value returned, the two tables afterwards, and whether the
\* connection was left open (never: it is closed in the finally clause).
\* users.email is unique; a failed insert, or no commit, leaves no row.
CreateUser(rows, projs, email, password, db) ==
    IF db # "ok" \/ RowsByEmail(rows, email) # {}
    THEN [ok |-> FALSE, users |-> rows, projects |-> projs, left_open |-> FALSE]
    ELSE [ok |-> TRUE,
          users |-> Append(rows, [id |-> Len(rows) + 1, email |-> email,
                                  password_hash |-> HashPassword(password)]),
          projects |-> Append(projs, [id |-> Len(projs) + 1, user_id |-> Len(rows) + 1]),
          left_open |-> FALSE]

\* call_gemini_for_dot, lines 109-117: from response.text to the DOT returned
NormalizeDot(text) ==
    LET content == Strip(text)
        inner   == SplitSecond(content, Fence)
    IN  IF Contains(content, Fence)
        THEN IF StartsWith(inner, W_dot)
             THEN Strip(SubSeq(inner, 4, Len(inner)))
             ELSE Strip(inner)
        ELSE Strip(content)

\* `if not response.text: raise` left out
BodyOfCallAcceptingEmpty(resp) ==
    IF resp.kind # "text"
    THEN [ok |-> FALSE, content |-> <<>>, duration |-> 0, error |-> "transport"]
    ELSE [ok |-> TRUE, content |-> NormalizeDot(resp.text), duration |-> resp.duration,
          error |-> "none"]

\* the body of call_gemini_for_dot, run on a cache miss: resp is what
\* model.generate_content does (kind "raise": it, or response.text, raises)
BodyOfCall(resp) ==
    IF resp.kind # "text"
    THEN [ok |-> FALSE, content |-> <<>>, duration |-> 0, error |-> "transport"]
    ELSE IF resp.text = <<>>
    THEN [ok |-> FALSE, content |-> <<>>, duration |-> 0,
          error |-> "Gemini returned an empty response."]
    ELSE [ok |-> TRUE, content |-> NormalizeDot(resp.text), duration |-> resp.duration,
          error |-> "none"]

\* an entry of the cache: the pair returned and its age in seconds
NoEntry == [live |-> FALSE, content |-> <<>>, duration |-> 0, age |-> 0]
Entry(content, duration) == [live |-> TRUE, content |-> content, duration |-> duration, age |-> 0]

\* a key that ignores case and surrounding whitespace
CacheKeyFolded(prompt_text) == Lower(Strip(prompt_text))

\* st.cache_data keys an entry by the hash of the argument: the prompt itself
CacheKey(prompt_text) == prompt_text

\* the entry of a prompt, NoEntry when there is none or it is ttl old
CacheLookup(entries, prompt_text) ==
    LET e == entries[CacheKey(prompt_text)]
    IN  IF e.live /\ e.age < TTL THEN e ELSE NoEntry

CacheStore(entries, prompt_text, e) == [entries EXCEPT ![CacheKey(prompt_text)] = e]

\* call_gemini_for_dot under @st.cache_data(ttl=3600): asked says whether the
\* body ran (the service was called); a raise stores nothing
CallGeminiForDot(entries, prompt_text, resp) ==
    LET e == CacheLookup(entries, prompt_text)
        b == BodyOfCall(resp)
    IN  IF e.live
        THEN [asked |-> FALSE, ok |-> TRUE, content |-> e.content, duration |-> e.duration,
              error |-> "none", cache |-> entries]
        ELSE [asked |-> TRUE, ok |-> b.ok, content |-> b.content, duration |-> b.duration,
              error |-> b.error,
              cache |-> IF b.ok
                        THEN CacheStore(entries, prompt_text, Entry(b.content, b.duration))
                        ELSE entries]

\* json.dumps of a str
EscapeChar(c) ==
    CASE c = "\n"  -> <<"\\", "n">>
      [] c = QUOTE -> <<"\\", QUOTE>>
      [] c = "\\"  -> <<"\\", "\\">>
      [] OTHER     -> <<c>>

RECURSIVE Escape(_)
Escape(t) == IF t = <<>> THEN <<>> ELSE EscapeChar(Head(t)) \o Escape(Tail(t))

JsonDumps(t) == <<QUOTE>> \o Escape(t) \o <<QUOTE>>

\* the INSERT ... SELECT of the generate handler: the row appended to logs, for
\* the first project of the user (none when the user has no project)
NoLog == [some |-> FALSE, project_id |-> 0, user_prompt |-> <<>>, llm_response |-> <<>>,
          execution_time |-> 0]

LogRow(projs, uid, user_input, dot, exec_time) ==
    LET mine == {n \in 1..Len(projs) : projs[n].user_id = uid}
    IN  IF mine = {} THEN NoLog
        ELSE [some |-> TRUE,
              project_id |-> projs[CHOOSE n \in mine : \A m \in mine : n <= m].id,
              user_prompt |-> user_input, llm_response |-> JsonDumps(dot),
              execution_time |-> exec_time]

\* what one run of app.py did: the widget event, the description submitted,
\* whether call_gemini_for_dot was called, whether the service was asked, the
\* text the service answered, the pair returned, the id authenticate_user returned, the
\* message shown, the exception that ended the run, whether a connection was
\* left open, and the row appended to logs
AppRun(event, input, called, asked, resp, result, uid, msg, exc, left_open, log) ==
    [event |-> event, input |-> input, called |-> called, asked |-> asked, resp |-> resp,
     result |-> result, uid |-> uid, msg |-> msg, exc |-> exc, left_open |-> left_open,
     log |-> log]

NoAnswer == [kind |-> "none", text |-> <<>>, duration |-> 0]

AppIdle == AppRun("start", <<>>, FALSE, FALSE, NoAnswer, NoEntry, NoUser, "none", "none",
                  FALSE, NoLog)

\* lines 200-212: the chart drawn at the end of a run
ViewChart ==
    IF logged_in = "True" /\ last_dot.some /\ last_dot.v # <<>> THEN last_dot ELSE NoText

\* lines 135-137 without the reset of last_dot
AfterLogoutKeepDot == [logged_in |-> "False", user_id |-> NoUser, last_dot |-> last_dot]

\* lines 135-137
AfterLogout == [logged_in |-> "False", user_id |-> NoUser, last_dot |-> NoText]

----------------------------------------------------------------------------
(* The answers of the generation service to autoergen.py: the JSON text of *)
(* every ER specification within the bounds (the structure the prompt asks *)
(* for), bare or in a fenced block, and texts that depart from it.         *)

MaxEntities == 2
MaxRels     == 2

SeqsUpTo(S, n) == UNION {[1..k -> S] : k \in 0..n}

Names == {<<"A">>, <<"B">>}

\* a relationship as the service writes it; has_relation: the "relation" key
\* is present
RelInput(a, b, has) == [from |-> a, to |-> b, relation |-> <<"p">>, has_relation |-> has]

RelInputs ==
    { RelInput(<<"A">>, <<"B">>, TRUE),
      RelInput(<<"A">>, <<"B">>, FALSE),
      RelInput(<<"B">>, <<"A">>, TRUE),
      RelInput(<<"A">>, <<"A">>, TRUE) }

ErInputs ==
    [entities : SeqsUpTo(Names, MaxEntities), relationships : SeqsUpTo(RelInputs, MaxRels)]

DumpStr(w) == <<QUOTE>> \o w \o <<QUOTE>>

RECURSIVE DumpList(_)
DumpList(texts) ==
    IF texts = <<>> THEN <<>>
    ELSE IF Len(texts) = 1 THEN texts[1]
    ELSE texts[1] \o <<",", " ">> \o DumpList(Tail(texts))

DumpRel(r) ==
    <<"{">> \o DumpStr(W_from) \o <<":">> \o DumpStr(r.from) \o <<",">>
    \o DumpStr(W_to) \o <<":">> \o DumpStr(r.to)
    \o (IF r.has_relation
        THEN <<",">> \o DumpStr(W_relation) \o <<":">> \o DumpStr(r.relation)
        ELSE <<>>)
    \o <<"}">>

Dump(e) ==
    <<"{">> \o DumpStr(W_entities) \o <<":", " ", "[">>
    \o DumpList([n \in 1..Len(e.entities) |-> DumpStr(e.entities[n])])
    \o <<"]", ",", "\n">> \o DumpStr(W_relationships) \o <<":", " ", "[">>
    \o DumpList([n \in 1..Len(e.relationships) |-> DumpRel(e.relationships[n])])
    \o <<"]", "}">>

InFence(tag, t) == Fence \o tag \o <<"\n">> \o t \o <<"\n">> \o Fence

\* texts that are not JSON
NotJsonTexts ==
    { <<>>,
      <<"o", "k">>,
      <<"{">> \o DumpStr(W_entities) \o <<":", "[">>,
      <<"{">> \o DumpStr(W_entities) \o <<":", "[", "]", ",", "}">>,
      <<"[", "]", " ", "[", "]">> }

\* JSON texts that are not an ER specification
OffShapeTexts ==
    { <<"[", "]">>,
      <<"5">>,
      <<"n", "u", "l", "l">>,
      DumpStr(<<"A">>),
      <<"{", "}">>,
      <<"{">> \o DumpStr(W_relationships) \o <<":", "[", "]", "}">>,
      <<"{">> \o DumpStr(W_entities) \o <<":", "[">> \o DumpStr(<<"A">>) \o <<"]", "}">>,
      <<"{">> \o DumpStr(W_entities) \o <<":", "[", "5", "]", "}">>,
      <<"{">> \o DumpStr(W_entities) \o <<":">> \o DumpStr(<<"A", "B">>) \o <<"}">>,
      <<"{">> \o DumpStr(W_entities) \o <<":", "[">> \o DumpStr(<<"A">>) \o <<"]", ",">>
          \o DumpStr(W_relationships) \o <<":", "n", "u", "l", "l", "}">>,
      <<"{">> \o DumpStr(W_entities) \o <<":", "[">> \o DumpStr(<<"A">>) \o <<"]", ",">>
          \o DumpStr(W_relationships) \o <<":", "[", "{">>
          \o DumpStr(W_to) \o <<":">> \o DumpStr(<<"A">>) \o <<"}", "]", "}">>,
      <<"{">> \o DumpStr(W_entities) \o <<":", "[">> \o DumpStr(<<"A">>) \o <<"]", ",">>
          \o DumpStr(W_relationships) \o <<":", "[", "{">>
          \o DumpStr(W_from) \o <<":">> \o DumpStr(<<"A">>) \o <<"}", "]", "}">> }

BareTexts == {Dump(e) : e \in ErInputs} \cup NotJsonTexts \cup OffShapeTexts

RawOutputs ==
    BareTexts \cup {InFence(W_json, t) : t \in BareTexts} \cup {InFence(<<>>, t) : t \in BareTexts}

AeResponses ==
    {[kind |-> "text", text |-> t] : t \in RawOutputs}
    \cup {[kind |-> "raise", text |-> <<>>], NoResp}

\* descriptions typed into the text area
UserInputs == {<<>>, <<" ">>, <<"\n", " ">>, <<"a">>, <<"A">>, <<"a", " ">>}

----------------------------------------------------------------------------

\* what is typed into the login and signup forms: two emails, and for one of
\* them two passwords
Credentials ==
    { [email |-> "a@x", password |-> "p"],
      [email |-> "a@x", password |-> "q"],
      [email |-> "b@x", password |-> "p"] }

\* the seconds that pass in one step of the clock
TickStep == 1800

\* the answers of the generation service to app.py: DOT, bare or fenced, the
\* empty text, or a failure; with the seconds the call took
AppAnswers ==
    { [kind |-> "text",  text |-> <<"g">>, duration |-> 1],
      [kind |-> "text",  text |-> InFence(W_dot, <<"g">>), duration |-> 1],
      [kind |-> "text",  text |-> <<"h">>, duration |-> 2],
      [kind |-> "text",  text |-> <<>>, duration |-> 1],
      [kind |-> "raise", text |-> <<>>, duration |-> 0] }

\* what the DOT source is edited to
EditTexts == {<<"e">>, <<>>}

\* one application of the normalisation of call_gemini_for_dot to a body and
\* to the same body in a fenced block with a language tag
MaxBody == 3

BodyChars == {"d", "o", "t", "x", " ", "\n"}

Bodies == UNION {[1..k -> BodyChars] : k \in 1..MaxBody}

Tags == {<<>>, W_dot, <<"g", "v">>, <<"D", "O", "T">>}

NormIdle == [phase |-> "idle", body |-> <<>>, tag |-> <<>>, fenced |-> <<>>, bare |-> <<>>]

----------------------------------------------------------------------------

Init ==
    /\ script \in {"app", "autoergen"}
    /\ logged_in = "None"
    /\ user_id = NoUser
    /\ last_dot = NoText
    /\ users = <<>>
    /\ projects = <<>>
    /\ cache = [k \in UserInputs |-> NoEntry]
    /\ served = [k \in UserInputs |-> NoEntry]
    /\ stale = FALSE
    /\ run = AppIdle
    /\ IF script = "autoergen"
       THEN \E user_input \in UserInputs : ae = AeTyped(user_input)
       ELSE ae = AeDone(AeIdle)
    /\ norm = NormIdle

\* app.py, lines 143-154: the login form is submitted
Login ==
    /\ script = "app"
    /\ logged_in # "True"
    /\ \E typed \in Credentials, db \in DbOutcomes :
          LET a == AuthenticateUser(users, typed.email, typed.password, db)
          IN  IF a.raised
              THEN /\ run' = AppRun("login", <<>>, FALSE, FALSE, NoAnswer, NoEntry, NoUser,
                                    "none", "psycopg2.Error", a.left_open, NoLog)
                   /\ UNCHANGED <<logged_in, user_id, stale>>
              ELSE IF a.uid # NoUser
              THEN /\ logged_in' = "True"
                   /\ user_id' = a.uid
                   /\ stale' = last_dot.some
                   /\ run' = AppRun("login", <<>>, FALSE, FALSE, NoAnswer, NoEntry, a.uid,
                                    "none", "none", a.left_open, NoLog)
              ELSE /\ run' = AppRun("login", <<>>, FALSE, FALSE, NoAnswer, NoEntry, NoUser,
                                    "Invalid credentials", "none", a.left_open, NoLog)
                   /\ UNCHANGED <<logged_in, user_id, stale>>
    /\ UNCHANGED <<script, last_dot, users, projects, cache, served, ae, norm>>

\* app.py, lines 157-165: the signup form is submitted
Signup ==
    /\ script = "app"
    /\ logged_in # "True"
    /\ \E typed \in Credentials, db \in DbOutcomes :
          LET c == CreateUser(users, projects, typed.email, typed.password, db)
          IN  /\ users' = c.users
              /\ projects' = c.projects
              /\ run' = AppRun("signup", <<>>, FALSE, FALSE, NoAnswer, NoEntry, NoUser,
                               IF c.ok THEN "Account created. Please log in."
                               ELSE "Email already exists",
                               "none", c.left_open, NoLog)
    /\ UNCHANGED <<script, logged_in, user_id, last_dot, cache, served, stale, ae, norm>>

\* app.py, lines 132-138: the Logout button
Logout ==
    /\ script = "app"
    /\ logged_in = "True"
    /\ logged_in' = AfterLogout.logged_in
    /\ user_id' = AfterLogout.user_id
    /\ last_dot' = AfterLogout.last_dot
    /\ stale' = (stale /\ last_dot'.some)
    /\ run' = AppRun("logout", <<>>, FALSE, FALSE, NoAnswer, NoEntry, NoUser, "none", "none",
                     FALSE, NoLog)
    /\ UNCHANGED <<script, users, projects, cache, served, ae, norm>>

\* app.py, lines 170-198: the Generate Diagram button, with the description in
\* the text area, the answer the service gives if asked, and the outcome of the
\* database during the log insert
Generate ==
    /\ script = "app"
    /\ logged_in = "True"
    /\ \E user_input \in UserInputs :
          IF Blank(user_input)
          THEN /\ run' = AppRun("generate", user_input, FALSE, FALSE, NoAnswer, NoEntry,
                                NoUser, "none", "none", FALSE, NoLog)
               /\ UNCHANGED <<last_dot, cache, served, stale>>
          ELSE \E resp \in AppAnswers :
               LET c == CallGeminiForDot(cache, user_input, resp)
                   a == IF c.asked THEN [resp EXCEPT !.duration = 0] ELSE NoAnswer
               IN  /\ cache' = c.cache
                   /\ served' = IF c.asked /\ c.ok
                                THEN [served EXCEPT ![user_input] = Entry(c.content, c.duration)]
                                ELSE served
                   /\ IF ~c.ok
                      THEN /\ run' = AppRun("generate", user_input, TRUE, c.asked, a, NoEntry,
                                            NoUser, "Error calling Gemini", c.error, FALSE, NoLog)
                           /\ UNCHANGED <<last_dot, stale>>
                      ELSE /\ last_dot' = SomeText(c.content)
                           /\ stale' = FALSE
                           /\ \E db \in DbOutcomes :
                              run' = AppRun("generate", user_input, TRUE, c.asked, a,
                                 Entry(c.content, c.duration), NoUser,
                                 CASE db = "ok" -> "none"
                                   [] db = "noconn" -> "DB Error"
                                   [] db = "queryfail" -> "Error calling Gemini",
                                 IF db = "queryfail" THEN "psycopg2.Error" ELSE "none",
                                 db = "queryfail",
                                 IF db = "ok"
                                 THEN LogRow(projects, user_id, user_input, c.content, c.duration)
                                 ELSE NoLog)
    /\ UNCHANGED <<script, logged_in, user_id, users, projects, ae, norm>>

\* app.py, lines 200-206: the Update Diagram button under the DOT source
UpdateDiagram ==
    /\ script = "app"
    /\ ViewChart.some
    /\ \E edited \in EditTexts \cup {last_dot.v} :
          last_dot' = SomeText(edited)
    /\ stale' = FALSE
    /\ run' = AppRun("update", <<>>, FALSE, FALSE, NoAnswer, NoEntry, NoUser, "none", "none",
                     FALSE, NoLog)
    /\ UNCHANGED <<script, logged_in, user_id, users, projects, cache, served, ae, norm>>

\* the entries TickStep seconds later; one that reaches ttl is dropped
Aged(entries) ==
    [k \in DOMAIN entries |->
        IF entries[k].live /\ entries[k].age + TickStep < TTL
        THEN [entries[k] EXCEPT !.age = @ + TickStep]
        ELSE NoEntry]

\* time passes between two runs
Tick ==
    /\ script = "app"
    /\ cache' = Aged(cache)
    /\ served' = Aged(served)
    /\ UNCHANGED <<script, logged_in, user_id, last_dot, users, projects, stale, run, ae, norm>>

\* autoergen.py: a click on "Generate Visualization", with the answer the
\* service gives if it is asked.  The script keeps nothing from one run to the
\* next, so one run from every description is every behaviour.
AeGenerate ==
    /\ script = "autoergen"
    /\ ae.phase = "typed"
    /\ IF Blank(ae.out.input)
       THEN ae' = AeDone(AeHandler(ae.out.input, NoResp))
       ELSE \E resp \in AeResponses : ae' = AeDone(AeHandler(ae.out.input, resp))
    /\ UNCHANGED <<script, logged_in, user_id, last_dot, users, projects, cache,
                   served, stale, run, norm>>

Next ==
    \/ Login
    \/ Signup
    \/ Logout
    \/ Generate
    \/ UpdateDiagram
    \/ Tick
    \/ AeGenerate

Spec == Init /\ [][Next]_vars

\* the normalisation as a function of the service's text
InitNorm ==
    /\ script = "app"
    /\ logged_in = "None"
    /\ user_id = NoUser
    /\ last_dot = NoText
    /\ users = <<>>
    /\ projects = <<>>
    /\ cache = [k \in UserInputs |-> NoEntry]
    /\ served = [k \in UserInputs |-> NoEntry]
    /\ stale = FALSE
    /\ run = AppIdle
    /\ ae = AeDone(AeIdle)
    /\ \E b \in Bodies, t \in Tags :
          norm = [phase |-> "input", body |-> b, tag |-> t, fenced |-> <<>>, bare |-> <<>>]

Normalize ==
    /\ norm.phase = "input"
    /\ norm' = [norm EXCEPT !.phase = "done",
                            !.fenced = NormalizeDot(InFence(norm.tag, norm.body)),
                            !.bare = NormalizeDot(norm.body)]
    /\ UNCHANGED <<script, logged_in, user_id, last_dot, users, projects, cache,
                   served, stale, run, ae>>

SpecNorm == InitNorm /\ [][Normalize]_vars

----------------------------------------------------------------------------
(* The claims                                                              *)

WhitespaceOnly(t) == \A n \in 1..Len(t) : t[n] \in WS

AppGenerated == script = "app" /\ run.event = "generate"
AeRan        == script = "autoergen" /\ ae.phase = "done"

\* C1: a click on the generate button with an empty or whitespace-only
\* description never calls the generation client, in either script.
C1_BlankNeverGenerates ==
    /\ (AppGenerated /\ WhitespaceOnly(run.input)) => (~run.called /\ ~run.asked)
    /\ (AeRan /\ WhitespaceOnly(ae.out.input)) => ~ae.out.called

C1_Witness == AppGenerated /\ run.input = <<"\n", " ">> /\ ~run.called

ValidJson(text) == Loads(CleanJson(text)).ok

AeAnswered == AeRan /\ ae.out.called /\ ae.out.resp.kind = "text"

\* C2: when the service's text is not valid JSON once the fences are removed,
\* generate_er_spec returns the empty ER specification and no exception leaves it.
C2_NotJsonGivesEmptySpec ==
    (AeAnswered /\ ~ValidJson(ae.out.resp.text)) =>
        (ae.out.data = EmptySpec /\ ae.out.exc = "none")

C2_Witness ==
    /\ AeAnswered
    /\ ae.out.resp.text = InFence(W_json, <<"o", "k">>)
    /\ ae.out.data = EmptySpec

IsText(v) == v.t = "str"

\* an ER specification: entity names, and relationships between names with an
\* optional label
IsRel(v) ==
    /\ v.t = "dict"
    /\ HasKey(v, W_from) /\ IsText(Lookup(v, W_from))
    /\ HasKey(v, W_to) /\ IsText(Lookup(v, W_to))
    /\ HasKey(v, W_relation) => IsText(Lookup(v, W_relation))

IsErSpec(v) ==
    /\ v.t = "dict"
    /\ HasKey(v, W_entities) /\ HasKey(v, W_relationships)
    /\ Lookup(v, W_entities).t = "list"
    /\ Lookup(v, W_relationships).t = "list"
    /\ \A n \in 1..Len(Lookup(v, W_entities).items) : IsText(Lookup(v, W_entities).items[n])
    /\ \A n \in 1..Len(Lookup(v, W_relationships).items) :
          IsRel(Lookup(v, W_relationships).items[n])

EntitiesOf(v) == Lookup(v, W_entities).items
RelsOf(v)     == Lookup(v, W_relationships).items

\* C3: when the service's text is valid JSON that is not an ER specification,
\* the run goes on with the empty ER specification and no exception ends it.
C3_OffShapeGivesEmptySpec ==
    (AeAnswered /\ ValidJson(ae.out.resp.text)
                /\ ~IsErSpec(Loads(CleanJson(ae.out.resp.text)).v)) =>
        (ae.out.data = EmptySpec /\ ae.out.exc = "none")

WellFormed(v) ==
    /\ IsErSpec(v)
    /\ \A n \in 1..Len(RelsOf(v)) :
          /\ \E m \in 1..Len(EntitiesOf(v)) : EntitiesOf(v)[m] = Lookup(RelsOf(v)[n], W_from)
          /\ \E m \in 1..Len(EntitiesOf(v)) : EntitiesOf(v)[m] = Lookup(RelsOf(v)[n], W_to)

IsEdge(st) == st.kind = "edge"
IsNode(st) == st.kind = "node"

\* the nodes of the graph a body describes: those declared and those an edge names
GraphNodes(body) ==
    {body[n].tail : n \in {m \in 1..Len(body) : body[m].kind \in {"node", "edge"}}}
    \cup {body[n].head : n \in {m \in 1..Len(body) : IsEdge(body[m])}}

\* C4: for a well-formed ER specification the diagram has exactly the distinct
\* entity names as nodes, each declared with its own name as label, and one
\* edge per relationship, in the order of the relationships, from "from" to
\* "to", labelled with "relation" (the empty label when absent).
C4_DiagramMatchesSpec ==
    (AeAnswered /\ ae.out.data.t = "dict" /\ WellFormed(ae.out.data)
                /\ EntitiesOf(ae.out.data) # <<>>) =>
        LET E     == EntitiesOf(ae.out.data)
            R     == RelsOf(ae.out.data)
            edges == SelectSeq(ae.out.diagram, IsEdge)
            nodes == SelectSeq(ae.out.diagram, IsNode)
        IN  /\ ae.out.shown_diagram
            /\ GraphNodes(ae.out.diagram) = {E[n].s : n \in 1..Len(E)}
            /\ \A n \in 1..Len(nodes) : nodes[n].label = nodes[n].tail
            /\ Len(edges) = Len(R)
            /\ \A n \in 1..Len(R) :
                  /\ edges[n].tail = Lookup(R[n], W_from).s
                  /\ edges[n].head = Lookup(R[n], W_to).s
                  /\ edges[n].label = IF HasKey(R[n], W_relation)
                                      THEN Lookup(R[n], W_relation).s ELSE <<>>

C4_Witness ==
    /\ AeRan /\ ae.out.shown_diagram
    /\ EntitiesOf(ae.out.data) = <<JStr(<<"A">>), JStr(<<"B">>)>>
    /\ SelectSeq(ae.out.diagram, IsEdge) =
          <<EdgeStmt(<<"B">>, <<"A">>, <<"p">>), EdgeStmt(<<"A">>, <<"B">>, <<>>)>>
    /\ ~ae.out.shown_sql

\* C5: the normalisation gives the same text for a body in a fenced block,
\* whatever the language tag, as for the body alone.
C5_FenceAndTagRemoved == norm.phase = "done" => norm.fenced = norm.bare

IsSuffix(p, t) == Len(p) <= Len(t) /\ SubSeq(t, Len(t) - Len(p) + 1, Len(t)) = p

\* C6: for every ER specification whose diagram was drawn, the schema is
\* produced: one CREATE TABLE per entity in order, then one ALTER TABLE per
\* relationship in order, adding to "from" the column lower("to")_id that
\* references "to".
C6_SchemaForEveryDiagram ==
    (AeRan /\ ae.out.shown_diagram) =>
        LET E == Iter(Get(ae.out.data, W_entities, JList(<<>>))).items
            R == Iter(Get(ae.out.data, W_relationships, JList(<<>>))).items
            S == ae.out.stmts
        IN  /\ ae.out.shown_sql
            /\ Len(S) = Len(E) + Len(R)
            /\ \A n \in 1..Len(E) :
                  StartsWith(S[n], <<"CREATE TABLE ">> \o E[n].s)
            /\ \A n \in 1..Len(R) :
                  IsSuffix(<<"ALTER TABLE ">> \o Lookup(R[n], W_from).s \o <<" ADD COLUMN ">>
                           \o Lower(Lookup(R[n], W_to).s) \o <<"_id INT REFERENCES ">>
                           \o Lookup(R[n], W_to).s \o <<"(id);">>,
                           S[Len(E) + n])

EmptyAnswer == run.asked /\ run.resp.kind = "text" /\ run.resp.text = <<>>

\* C7 as stated: after a generate action that the service answered with the
\* empty text, the error is reported and the run draws no diagram.
C7_NoDiagramAfterEmptyAnswer ==
    (AppGenerated /\ EmptyAnswer) =>
        /\ run.msg = "Error calling Gemini"
        /\ run.exc = "Gemini returned an empty response."
        /\ ~ViewChart.some

\* C7 as amended: a generate action that the service answers with the empty
\* text reports the error and writes nothing: last_dot and the cache keep their
\* values, so the run draws the diagram stored before it, if there was one, and
\* no new one.
C7_EmptyAnswerWritesNothing ==
    [][(AppGenerated' /\ EmptyAnswer' /\ Generate) =>
          /\ run'.msg = "Error calling Gemini"
          /\ run'.exc = "Gemini returned an empty response."
          /\ last_dot' = last_dot
          /\ cache' = cache
          /\ ViewChart' = ViewChart]_vars

C7_Witness == AppGenerated /\ EmptyAnswer /\ ViewChart = SomeText(<<"g">>)

\* C8: a generate action with prompt P calls the service exactly when no call
\* for the very same string P has returned within the last hour; otherwise it
\* returns the pair that call returned.  A call that raised counts for nothing.
C8_Memoized ==
    [][(AppGenerated' /\ run'.called /\ Generate) =>
          IF served[run'.input].live
          THEN /\ ~run'.asked
               /\ run'.result.content = served[run'.input].content
               /\ run'.result.duration = served[run'.input].duration
               /\ last_dot' = SomeText(served[run'.input].content)
          ELSE run'.asked]_vars

C8_Witness ==
    /\ AppGenerated /\ run.called /\ ~run.asked
    /\ run.input = <<"a">>
    /\ served[<<"a">>].age = TickStep
    /\ served[<<"A">>].live /\ served[<<"A">>].content # served[<<"a">>].content
    /\ ~served[<<"a", " ">>].live

\* C9: no operation of app.py leaves its connection open.
C9_ConnectionsClosed == script = "app" => ~run.left_open

UserIds == {users[n].id : n \in 1..Len(users)}

SessionInv ==
    /\ logged_in = "True" => user_id \in UserIds
    /\ logged_in # "True" => (user_id = NoUser /\ last_dot = NoText)
    /\ (run.called \/ run.asked) => logged_in = "True"
    /\ ~stale

\* C10: logged_in is true only with user_id the id authenticate_user returned;
\* the generation client is called and last_dot written only while logged in;
\* logout leaves logged_in false and user_id and last_dot None, so last_dot
\* never holds a diagram written before the latest login.
C10_Session ==
    [][/\ SessionInv'
       /\ (logged_in # "True" /\ logged_in' = "True") =>
             (run'.event = "login" /\ run'.uid # NoUser /\ user_id' = run'.uid)
       /\ (last_dot' # last_dot /\ last_dot'.some) =>
             (logged_in = "True" /\ logged_in' = "True")
       /\ (logged_in = "True" /\ logged_in' # "True") =>
             (logged_in' = "False" /\ user_id' = NoUser /\ last_dot' = NoText)]_vars

C10_Witness ==
    /\ logged_in = "True" /\ run.event = "login" /\ user_id = 2
    /\ last_dot = NoText
    /\ served[<<"a">>].live

====
